---- MODULE Spec2Model ----
(***************************************************************************)
(* Registration / OTP lifecycle of dossh.app.api: userRegister,            *)
(* verification and resendOtp running as concurrent requests against the   *)
(* Prisma store.  Every request is a process whose steps are the awaits of *)
(* its async function: between two awaits any other request may run.       *)
(*                                                                         *)
(* Time is counted in minutes; ids of tokens and customers are the row's   *)
(* position in its table (randomUUID() only has to be fresh).              *)
(***************************************************************************)
EXTENDS Integers, Sequences, FiniteSets, Bags, TLC

VARIABLES
    db,     \* the tables: tokens, customers, accounts, blocks, attempts, smsEvents
    req,    \* per request slot: the body, request.user, the await it stands at, its locals, its reply
    now     \* the clock (Date.now()), in minutes

vars == <<db, req, now>>

----------------------------------------------------------------------------
(* Bounds of the model *)

NumCodes == 2          \* distinct OTP codes generateOTP() may return
MaxAuditRows == 5      \* rows of registration_attempts and sms_events together
MaxTime == 6           \* the clock stops here
RaceMaxTime == 2       \* the clock stops here when requests race
MaxRaceRows == 3       \* audit rows added while requests race
DefaultMaxAttempts == 2  \* registration_tokens.maxAttempts column default

(* Program constants, in minutes *)
COOLDOWN_PERIOD == 2
OTP_EXPIRY_TIME == 5
REGISTER_EXPIRY == 5
EXPIRES_IN == 3600

----------------------------------------------------------------------------
(* Values *)

NULL == 0 - 1               \* a null timestamp column
Undefined == "undefined"    \* a body field that was not sent
NoId == 0                   \* no row / no customerId sent
NoOtp == 0                  \* otp not sent (falsy)

Procs == {1, 2}             \* request slots: two requests may run at once
Codes == 1..NumCodes

(* utils/crypto.js hash: deterministic and one-way; never the identity *)
hash(otp) == <<"hash", otp>>
NoHash == <<>>

Devices == [d1 |-> [isActive |-> TRUE, deviceFingerprint |-> "fp1"],
            d2 |-> [isActive |-> FALSE, deviceFingerprint |-> "fp2"],
            d4 |-> [isActive |-> TRUE, deviceFingerprint |-> "fp4"]]

NoTokenRecord == [id |-> NoId, attempts |-> 0, maxAttempts |-> 0,
                  tokenHash |-> NoHash, createdAt |-> NULL]

NoBody == [phone |-> Undefined, email |-> Undefined, otp |-> NoOtp,
           deviceId |-> Undefined, customerId |-> NoId,
           firstName |-> Undefined, lastName |-> Undefined, password |-> Undefined]

NoReply == [statusCode |-> 0, error |-> "", message |-> "", customerId |-> NoId,
            accessToken |-> <<>>, expiresIn |-> 0, retryAfter |-> NULL,
            expiresAt |-> NULL, isNew |-> FALSE]

Idle == [op |-> "idle", pc |-> "idle", body |-> NoBody, user |-> NoId,
         tokenRecord |-> NoTokenRecord, otp |-> NoOtp, at |-> NULL,
         sent |-> {}, reply |-> NoReply]

EmptyDb == [tokens |-> <<>>, customers |-> <<>>, accounts |-> EmptyBag,
            blocks |-> EmptyBag, attempts |-> EmptyBag, smsEvents |-> EmptyBag]

Max(S) == CHOOSE x \in S : \A y \in S : y <= x

----------------------------------------------------------------------------
(* The store.  A write returns [ok, db]: a failed write leaves ok = FALSE   *)
(* and the tables as they were when it failed.                              *)

Ok(d) == [ok |-> TRUE, db |-> d, error |-> ""]
Failed(d, msg) == [ok |-> FALSE, db |-> d, error |-> msg]

(* Prisma drops a filter whose value is undefined *)
Matches(filter, column) == filter = Undefined \/ column = filter

(* blocks.findFirst: active and (expiresAt null or in the future) *)
findActive(d, scope, value) ==
    \E b \in BagToSet(d.blocks) :
        /\ b.scope = scope
        /\ Matches(value, b.value)
        /\ b.active = TRUE
        /\ (b.expiresAt = NULL \/ b.expiresAt > now)

(* blocks.create: active and expiresAt are left to the column defaults *)
blockCreate(d, data) ==
    [d EXCEPT !.blocks = @ (+) SetToBag({[scope |-> data.scope, value |-> data.value,
                                          reason |-> data.reason, source |-> data.source,
                                          active |-> TRUE, expiresAt |-> NULL]})]

attemptCreate(d, data) == [d EXCEPT !.attempts = @ (+) SetToBag({data})]

smsEventCreate(d, data) == [d EXCEPT !.smsEvents = @ (+) SetToBag({data})]

findActiveTokenAnyRegistration(d, phone, email, deviceId) ==
    LET found == {i \in 1..Len(d.tokens) :
                    /\ d.tokens[i].status = "pending"
                    /\ d.tokens[i].verifiedAt = NULL
                    /\ d.tokens[i].expiresAt > now}
    IN IF found = {} THEN NoId ELSE Max(found)

findActiveTokenIgnoringExpiry(d, phone, email, deviceId) ==
    LET found == {i \in 1..Len(d.tokens) :
                    /\ d.tokens[i].status = "pending"
                    /\ d.tokens[i].verifiedAt = NULL
                    /\ d.tokens[i].devicesId = deviceId
                    /\ Matches(phone, d.tokens[i].phone)
                    /\ Matches(email, d.tokens[i].email)}
    IN IF found = {} THEN NoId ELSE Max(found)

findActiveTokenAnyStatus(d, phone, email, deviceId) ==
    LET found == {i \in 1..Len(d.tokens) :
                    /\ d.tokens[i].expiresAt > now
                    /\ d.tokens[i].devicesId = deviceId
                    /\ Matches(phone, d.tokens[i].phone)
                    /\ Matches(email, d.tokens[i].email)}
    IN IF found = {} THEN NoId ELSE Max(found)

(* registration_tokens.findFirst of findActiveToken, newest first *)
findActiveToken(d, phone, email, deviceId) ==
    LET found == {i \in 1..Len(d.tokens) :
                    /\ d.tokens[i].status = "pending"
                    /\ d.tokens[i].verifiedAt = NULL
                    /\ d.tokens[i].expiresAt > now
                    /\ d.tokens[i].devicesId = deviceId
                    /\ Matches(phone, d.tokens[i].phone)
                    /\ Matches(email, d.tokens[i].email)}
    IN IF found = {} THEN NoId ELSE Max(found)

findByCustomerAndDetailsUnexpired(d, phone, email, deviceId) ==
    LET found == {i \in 1..Len(d.tokens) :
                    /\ Matches(phone, d.tokens[i].phone)
                    /\ Matches(email, d.tokens[i].email)
                    /\ d.tokens[i].devicesId = deviceId
                    /\ d.tokens[i].status = "pending"
                    /\ d.tokens[i].expiresAt > now}
    IN IF found = {} THEN NoId ELSE Max(found)

findByCustomerAndDetailsAnyStatus(d, phone, email, deviceId) ==
    LET found == {i \in 1..Len(d.tokens) :
                    /\ Matches(phone, d.tokens[i].phone)
                    /\ Matches(email, d.tokens[i].email)
                    /\ d.tokens[i].devicesId = deviceId}
    IN IF found = {} THEN NoId ELSE Max(found)

(* registration_tokens.findFirst of findByCustomerAndDetails, newest first *)
findByCustomerAndDetails(d, phone, email, deviceId) ==
    LET found == {i \in 1..Len(d.tokens) :
                    /\ Matches(phone, d.tokens[i].phone)
                    /\ Matches(email, d.tokens[i].email)
                    /\ d.tokens[i].devicesId = deviceId
                    /\ d.tokens[i].status = "pending"}
    IN IF found = {} THEN NoId ELSE Max(found)

incrementAttemptsNotPersisted(d, id) == d

incrementAttempts(d, id) ==
    [d EXCEPT !.tokens[id].attempts = @ + 1]

updateTokenKeepHash(d, id, data) ==
    [d EXCEPT !.tokens[id] = [@ EXCEPT !.token = data.token,
                                       !.expiresAt = data.expiresAt,
                                       !.attempts = data.attempts]]

updateTokenKeepAttempts(d, id, data) ==
    [d EXCEPT !.tokens[id] = [@ EXCEPT !.token = data.token,
                                       !.tokenHash = data.tokenHash,
                                       !.expiresAt = data.expiresAt]]

updateToken(d, id, data) ==
    [d EXCEPT !.tokens[id] = [@ EXCEPT !.token = data.token,
                                       !.tokenHash = data.tokenHash,
                                       !.expiresAt = data.expiresAt,
                                       !.attempts = data.attempts]]

tokenMarkVerifiedNoTimestamp(d, id) ==
    IF id \in 1..Len(d.tokens)
    THEN Ok([d EXCEPT !.tokens[id] = [@ EXCEPT !.status = "verified"]])
    ELSE Failed(d, "Record to update not found")

(* tx.registration_tokens.update of the activation transaction *)
tokenMarkVerified(d, id) ==
    IF id \in 1..Len(d.tokens)
    THEN Ok([d EXCEPT !.tokens[id] = [@ EXCEPT !.verifiedAt = now, !.status = "verified"]])
    ELSE Failed(d, "Record to update not found")

customerActivateSkipped(d, customerId) ==
    IF customerId \in 1..Len(d.customers)
    THEN Ok(d)
    ELSE Failed(d, "Record to update not found")

(* tx.customers.update where id = customerId *)
customerActivate(d, customerId) ==
    IF customerId \in 1..Len(d.customers)
    THEN Ok([d EXCEPT !.customers[customerId].isActive = TRUE])
    ELSE Failed(d, "Record to update not found")

(* tx.accounts.create: accounts.customerId is a unique column (findUnique) *)
accountCreate(d, customerId) ==
    IF \E a \in BagToSet(d.accounts) : a.customerId = customerId
    THEN Failed(d, "Unique constraint failed")
    ELSE Ok([d EXCEPT !.accounts = @ (+) SetToBag({[customerId |-> customerId,
                                                    accountType |-> "EVERYDAY",
                                                    plan |-> "BASIC"]})])

customerCreateActive(d, data) ==
    IF \E i \in 1..Len(d.customers) : d.customers[i].email = data.email
    THEN Failed(d, "Unique constraint failed")
    ELSE Ok([d EXCEPT !.customers = Append(@, [data EXCEPT !.isActive = TRUE])])

(* tx.customers.create: customers.email is a unique column (findUnique) *)
customerCreate(d, data) ==
    IF \E i \in 1..Len(d.customers) : d.customers[i].email = data.email
    THEN Failed(d, "Unique constraint failed")
    ELSE Ok([d EXCEPT !.customers = Append(@, data)])

tokenCreate(d, data) == [d EXCEPT !.tokens = Append(@, data)]

(* One write of a transaction: skipped once an earlier one failed; `fault`  *)
(* is the write at which the storage layer fails (0: none).                 *)
Write(prev, n, fault, result) ==
    IF ~prev.ok THEN prev
    ELSE IF fault = n THEN Failed(prev.db, "storage failure")
    ELSE result

(* prisma.$transaction: commit every write, or roll back to `before` *)
NoRollback(before, outcome) == outcome.db
Transaction(before, outcome) == IF outcome.ok THEN outcome.db ELSE before

----------------------------------------------------------------------------
(* Request slots *)

Free(p) == req[p].pc \in {"idle", "done"}

Reply(statusCode, error, message) ==
    [NoReply EXCEPT !.statusCode = statusCode, !.error = error, !.message = message]

(* routes/registration.js: every VerificationFlowError is a 400 "Invalid OTP" *)
VerifyError(message) == Reply(400, "Invalid OTP", message)

(* routes/registration.js: every RegistrationFlowError is a 400 *)
RegisterError(message) == Reply(400, "Registration Error", message)

(* routes/otp.js: an error that is no OtpFlowError is a generic 500 *)
ResendGenericError == Reply(500, "Internal Server Error",
                            "Failed to process OTP resend request")

Set(p, r) == req' = [req EXCEPT ![p] = r]

Goto(p, pc) == Set(p, [req[p] EXCEPT !.pc = pc])

(* the request has answered: its locals are gone; the body, the caller,     *)
(* what was sent and the id of the token it matched are kept beside the     *)
(* reply                                                                    *)
Finished(r, reply) ==
    [Idle EXCEPT !.op = r.op, !.pc = "done", !.body = r.body, !.user = r.user,
                 !.tokenRecord = [NoTokenRecord EXCEPT !.id = r.tokenRecord.id],
                 !.sent = r.sent, !.reply = reply]

Finish(p, reply) == Set(p, Finished(req[p], reply))

Begin(op, body) == [Idle EXCEPT !.op = op, !.pc = "start", !.body = body]

(* Bound of the model: a request is let in only while the audit tables have *)
(* room for the rows it and the requests in flight may add (a registration  *)
(* adds two, any other request at most one).                                *)
AuditRowsOf(op) == IF op = "register" THEN 2 ELSE 1

RECURSIVE Reserved(_)
Reserved(P) ==
    IF P = {} THEN 0
    ELSE LET q == CHOOSE x \in P : TRUE
         IN (IF req[q].pc \in {"idle", "done"} THEN 0 ELSE AuditRowsOf(req[q].op))
            + Reserved(P \ {q})

HasRoom(op, limit) ==
    BagCardinality(db.attempts) + BagCardinality(db.smsEvents)
        + Reserved(Procs) + AuditRowsOf(op) <= limit

deviceValidationNoBlockCheck(d, deviceId) ==
    IF deviceId \notin DOMAIN Devices \/ ~Devices[deviceId].isActive
    THEN "Invalid or inactive device"
    ELSE ""

(* utils/device-validation.js: "" when the device passes *)
deviceValidation(d, deviceId) ==
    IF deviceId \notin DOMAIN Devices \/ ~Devices[deviceId].isActive
    THEN "Invalid or inactive device"
    ELSE IF findActive(d, "device", deviceId)
    THEN "Your device has been blocked"
    ELSE ""

phoneValidationSkipped(d, phone) == ""

phoneValidation(d, phone) ==
    IF findActive(d, "phone", phone) THEN "Phone number has been blocked" ELSE ""

emailValidation(d, email) ==
    IF findActive(d, "email", email) THEN "Email address has been blocked" ELSE ""

----------------------------------------------------------------------------
(* verification (verification-flow.js)                                      *)

(* VerifyOtpBody, validated before the handler runs: customerId is a        *)
(* required string that the handler's own check below does not look at     *)
VerifyOtpBodyInvalid(body) == body.customerId = NoId

MissingVerificationParametersIgnored(body) == FALSE

(* !otp || !deviceId || (!phone && !email) *)
MissingVerificationParameters(body) ==
    \/ body.otp = NoOtp
    \/ body.deviceId = Undefined
    \/ (body.phone = Undefined /\ body.email = Undefined)

(* the request arrives: the body schema, the required parameters, then      *)
(* deviceValidation                                                         *)
VerifyStart(p, body, limit) ==
    /\ Free(p) /\ HasRoom("verify", limit)
    /\ UNCHANGED <<db, now>>
    /\ LET r == Begin("verify", body)
           invalid == deviceValidation(db, body.deviceId)
       IN IF VerifyOtpBodyInvalid(body)
          THEN Set(p, Finished(r, Reply(400, "Bad Request",
                                  "body must have required property 'customerId'")))
          ELSE IF MissingVerificationParameters(body)
          THEN Set(p, Finished(r, VerifyError("Missing required verification parameters")))
          ELSE IF invalid # ""
          THEN Set(p, Finished(r, VerifyError(invalid)))
          ELSE Set(p, [r EXCEPT !.pc = "phoneValidation"])

VerifyPhoneValidation(p) ==
    /\ req[p].op = "verify" /\ req[p].pc = "phoneValidation"
    /\ UNCHANGED <<db, now>>
    /\ LET blocked == phoneValidation(db, req[p].body.phone)
       IN IF blocked # "" THEN Finish(p, VerifyError(blocked))
          ELSE Goto(p, "emailValidation")

VerifyEmailValidation(p) ==
    /\ req[p].op = "verify" /\ req[p].pc = "emailValidation"
    /\ UNCHANGED <<db, now>>
    /\ LET blocked == emailValidation(db, req[p].body.email)
       IN IF blocked # "" THEN Finish(p, VerifyError(blocked))
          ELSE Goto(p, "findActiveToken")

NextAfterLookupHashFirst(tokenRecord, otp) ==
    IF tokenRecord.tokenHash = hash(otp) THEN "transaction"
    ELSE IF tokenRecord.attempts >= tokenRecord.maxAttempts THEN "blockCreate"
    ELSE "incrementAttempts"

(* the lookup, then (without an await) the attempts check and the hash      *)
(* comparison against the record as it was read                             *)
NextAfterLookup(tokenRecord, otp) ==
    IF tokenRecord.attempts >= tokenRecord.maxAttempts THEN "blockCreate"
    ELSE IF tokenRecord.tokenHash # hash(otp) THEN "incrementAttempts"
    ELSE "transaction"

VerifyFindActiveToken(p) ==
    /\ req[p].op = "verify" /\ req[p].pc = "findActiveToken"
    /\ UNCHANGED <<db, now>>
    /\ LET b == req[p].body
           id == findActiveToken(db, b.phone, b.email, b.deviceId)
       IN IF id = NoId
          THEN Finish(p, VerifyError("Verification token not found or expired"))
          ELSE LET t == db.tokens[id]
                   tokenRecord == [id |-> id, attempts |-> t.attempts,
                                   maxAttempts |-> t.maxAttempts,
                                   tokenHash |-> t.tokenHash,
                                   createdAt |-> t.createdAt]
               IN Set(p, [req[p] EXCEPT !.tokenRecord = tokenRecord,
                                        !.pc = NextAfterLookup(tokenRecord, b.otp)])

VerifyBlockCreate(p) ==
    /\ req[p].op = "verify" /\ req[p].pc = "blockCreate"
    /\ db' = blockCreate(db, [scope |-> "device", value |-> req[p].body.deviceId,
                              reason |-> "OTP max attempts exceeded",
                              source |-> "registration"])
    /\ Finish(p, VerifyError("Too many verification attempts"))
    /\ UNCHANGED now

VerifyIncrementAttempts(p) ==
    /\ req[p].op = "verify" /\ req[p].pc = "incrementAttempts"
    /\ db' = incrementAttempts(db, req[p].tokenRecord.id)
    /\ Goto(p, "attemptCreate")
    /\ UNCHANGED now

VerifyAttemptCreate(p) ==
    /\ req[p].op = "verify" /\ req[p].pc = "attemptCreate"
    /\ db' = attemptCreate(db, [phone |-> req[p].body.phone, email |-> req[p].body.email,
                                deviceId |-> req[p].body.deviceId,
                                action |-> "verify_otp", result |-> "failed",
                                reason |-> "Invalid OTP"])
    /\ Finish(p, VerifyError("Invalid verification code"))
    /\ UNCHANGED now

(* the four writes of the activation transaction, in order *)
ActivationWrites(d, r, fault) ==
    LET w1 == Write(Ok(d), 1, fault, tokenMarkVerified(d, r.tokenRecord.id))
        w2 == Write(w1, 2, fault, customerActivate(w1.db, r.body.customerId))
        w3 == Write(w2, 3, fault, accountCreate(w2.db, r.body.customerId))
        w4 == Write(w3, 4, fault,
                    Ok(attemptCreate(w3.db, [phone |-> r.body.phone, email |-> r.body.email,
                                             deviceId |-> r.body.deviceId,
                                             action |-> "verify_otp", result |-> "success",
                                             reason |-> ""])))
    IN w4

(* lib/jwt.js generateAccessToken: the signed payload *)
generateAccessToken(customerId, email) == <<customerId, email>>

VerifyTransaction(p, fault) ==
    /\ req[p].op = "verify" /\ req[p].pc = "transaction"
    /\ UNCHANGED now
    /\ LET outcome == ActivationWrites(db, req[p], fault)
           customerId == req[p].body.customerId
       IN /\ db' = Transaction(db, outcome)
          /\ IF outcome.ok
             THEN Finish(p, [Reply(201, "", "") EXCEPT
                                !.customerId = customerId,
                                !.accessToken = generateAccessToken(customerId,
                                                    db.customers[customerId].email),
                                !.expiresIn = EXPIRES_IN])
             ELSE Finish(p, VerifyError(outcome.error))

----------------------------------------------------------------------------
(* userRegister (register-flow.js) behind POST /api/registration/init       *)

(* sendSms, then sendEmail: what went out before the first failure *)
Dispatched(outcome) ==
    IF outcome = "sms_failed" THEN {}
    ELSE IF outcome = "email_failed" THEN {"sms"}
    ELSE {"sms", "email"}

DispatchOutcomes == {"sent", "sms_failed", "email_failed"}

(* the request arrives: the route's required fields, deviceValidation, and  *)
(* the OTP generateOTP() returns                                            *)
RegisterStart(p, body, otp, limit) ==
    /\ Free(p) /\ HasRoom("register", limit)
    /\ UNCHANGED <<db, now>>
    /\ LET r == Begin("register", body)
           invalid == deviceValidation(db, body.deviceId)
       IN IF \E f \in {"phone", "email", "deviceId", "firstName", "lastName", "password"} :
                 body[f] = Undefined
          THEN Set(p, Finished(r, RegisterError("Missing required fields: phone, email, deviceId, ip")))
          ELSE IF invalid # ""
          THEN Set(p, Finished(r, RegisterError(invalid)))
          ELSE Set(p, [r EXCEPT !.pc = "sendOtp", !.otp = otp])

RegisterSendOtpSwallowed(p, outcome) ==
    /\ req[p].op = "register" /\ req[p].pc = "sendOtp"
    /\ UNCHANGED <<db, now>>
    /\ Set(p, [req[p] EXCEPT !.sent = Dispatched(outcome), !.pc = "transaction"])

RegisterSendOtp(p, outcome) ==
    /\ req[p].op = "register" /\ req[p].pc = "sendOtp"
    /\ UNCHANGED <<db, now>>
    /\ LET r == [req[p] EXCEPT !.sent = Dispatched(outcome)]
       IN IF outcome # "sent"
          THEN Set(p, Finished(r, RegisterError("Failed to send verification code")))
          ELSE Set(p, [r EXCEPT !.pc = "transaction"])

(* the four creates of the registration transaction, in order *)
RegistrationWrites(d, r, fault) ==
    LET b == r.body
        w1 == Write(Ok(d), 1, fault,
                    Ok(attemptCreate(d, [phone |-> b.phone, email |-> b.email,
                                         deviceId |-> b.deviceId,
                                         action |-> "send_token", result |-> "initiated",
                                         reason |-> ""])))
        w2 == Write(w1, 2, fault,
                    Ok(tokenCreate(w1.db, [phone |-> b.phone, email |-> b.email,
                                           token |-> r.otp, tokenHash |-> hash(r.otp),
                                           tokenType |-> "sms",
                                           deviceFingerprint |-> Devices[b.deviceId].deviceFingerprint,
                                           expiresAt |-> now + REGISTER_EXPIRY,
                                           status |-> "pending", devicesId |-> b.deviceId,
                                           attempts |-> 0, maxAttempts |-> DefaultMaxAttempts,
                                           createdAt |-> now, verifiedAt |-> NULL])))
        w3 == Write(w2, 3, fault,
                    Ok(smsEventCreate(w2.db, [phone |-> b.phone, direction |-> "outbound",
                                              status |-> "sent", message |-> "OTP sent",
                                              devicesId |-> b.deviceId])))
        w4 == Write(w3, 4, fault,
                    customerCreate(w3.db, [phone |-> b.phone, email |-> b.email,
                                           isActive |-> FALSE, deviceId |-> b.deviceId]))
    IN w4

RegisterTransaction(p, fault) ==
    /\ req[p].op = "register" /\ req[p].pc = "transaction"
    /\ UNCHANGED now
    /\ LET outcome == RegistrationWrites(db, req[p], fault)
       IN /\ db' = Transaction(db, outcome)
          /\ IF outcome.ok
             THEN Finish(p, [Reply(201, "", "") EXCEPT
                                !.customerId = Len(outcome.db.customers)])
             ELSE Finish(p, RegisterError(outcome.error))

----------------------------------------------------------------------------
(* resendOtp (otp-flow.js) behind POST /api/otp/resend                      *)

ResendStart(p, body, limit) ==
    /\ Free(p) /\ HasRoom("resend", limit)
    /\ UNCHANGED <<db, now>>
    /\ LET r == Begin("resend", body)
       IN IF body.customerId = NoId \/ body.phone = Undefined
             \/ body.email = Undefined \/ body.deviceId = Undefined
          THEN Set(p, Finished(r, Reply(400, "Invalid Request",
                       "Missing required fields: customerId, phone, email, deviceId")))
          ELSE IF deviceValidation(db, body.deviceId) # ""
          THEN Set(p, Finished(r, ResendGenericError))
          ELSE Set(p, [r EXCEPT !.pc = "emailValidation"])

ResendEmailValidation(p) ==
    /\ req[p].op = "resend" /\ req[p].pc = "emailValidation"
    /\ UNCHANGED <<db, now>>
    /\ IF emailValidation(db, req[p].body.email) # ""
       THEN Finish(p, ResendGenericError)
       ELSE Goto(p, "phoneValidation")

ResendPhoneValidation(p) ==
    /\ req[p].op = "resend" /\ req[p].pc = "phoneValidation"
    /\ UNCHANGED <<db, now>>
    /\ IF phoneValidation(db, req[p].body.phone) # ""
       THEN Finish(p, ResendGenericError)
       ELSE Goto(p, "findByCustomerAndDetails")

WithinCooldownReversed(at, createdAt) == at - createdAt > COOLDOWN_PERIOD

(* now - createdAt < COOLDOWN_PERIOD *)
WithinCooldown(at, createdAt) == at - createdAt < COOLDOWN_PERIOD

(* the lookup, then (without an await) the cooldown decision, the new OTP   *)
(* and its expiry                                                           *)
ResendFindToken(p, newOtp) ==
    /\ req[p].op = "resend" /\ req[p].pc = "findByCustomerAndDetails"
    /\ UNCHANGED <<db, now>>
    /\ LET b == req[p].body
           id == findByCustomerAndDetails(db, b.phone, b.email, b.deviceId)
       IN IF id = NoId
          THEN Finish(p, Reply(404, "TOKEN_NOT_FOUND", "No OTP token found for this customer"))
          ELSE LET t == db.tokens[id]
                   r == [req[p] EXCEPT !.tokenRecord =
                            [id |-> id, attempts |-> t.attempts,
                             maxAttempts |-> t.maxAttempts,
                             tokenHash |-> t.tokenHash, createdAt |-> t.createdAt]]
               IN IF WithinCooldown(now, t.createdAt)
                  THEN Set(p, Finished(r, [Reply(429, "OTP_COOLDOWN_PERIOD",
                                  "Please wait 2 minutes before requesting a new OTP")
                               EXCEPT !.retryAfter = t.createdAt + COOLDOWN_PERIOD]))
                  ELSE Set(p, [r EXCEPT !.pc = "sendOtp", !.otp = newOtp, !.at = now])

ResendSendOtpSwallowed(p, outcome) ==
    /\ req[p].op = "resend" /\ req[p].pc = "sendOtp"
    /\ UNCHANGED <<db, now>>
    /\ Set(p, [req[p] EXCEPT !.sent = Dispatched(outcome), !.pc = "updateToken"])

ResendSendOtp(p, outcome) ==
    /\ req[p].op = "resend" /\ req[p].pc = "sendOtp"
    /\ UNCHANGED <<db, now>>
    /\ LET r == [req[p] EXCEPT !.sent = Dispatched(outcome)]
       IN IF outcome # "sent"
          THEN Set(p, Finished(r, Reply(500, "SENDING_FAILED", "Failed to send OTP")))
          ELSE Set(p, [r EXCEPT !.pc = "updateToken"])

ResendUpdateToken(p) ==
    /\ req[p].op = "resend" /\ req[p].pc = "updateToken"
    /\ db' = updateToken(db, req[p].tokenRecord.id,
                         [token |-> req[p].otp, tokenHash |-> hash(req[p].otp),
                          expiresAt |-> req[p].at + OTP_EXPIRY_TIME, attempts |-> 0])
    /\ Goto(p, "smsEventCreate")
    /\ UNCHANGED now

(* sms_events.create runs outside any transaction, after the rotation: when *)
(* the storage layer fails on it (fault # 0) the error is no OtpFlowError    *)
ResendSmsEventCreate(p, fault) ==
    /\ req[p].op = "resend" /\ req[p].pc = "smsEventCreate"
    /\ IF fault # 0
       THEN /\ db' = db
            /\ Finish(p, ResendGenericError)
       ELSE /\ db' = smsEventCreate(db, [phone |-> req[p].body.phone,
                                         direction |-> "outbound",
                                         status |-> "sent", message |-> "OTP resent",
                                         devicesId |-> req[p].body.deviceId])
            /\ Finish(p, [Reply(201, "", "") EXCEPT !.isNew = TRUE,
                                                    !.expiresAt = req[p].at + OTP_EXPIRY_TIME])
    /\ UNCHANGED now

----------------------------------------------------------------------------
(* The clock *)

Tick(limit) ==
    /\ now < limit
    /\ now' = now + 1
    /\ UNCHANGED <<db, req>>

----------------------------------------------------------------------------
(* Requests the clients send *)

Person(phone, email) ==
    [NoBody EXCEPT !.phone = phone, !.email = email, !.deviceId = "d1"]

Alice == Person("p1", "e1")
Bob == Person("p2", "e2")
People == {Alice, Bob}

RegisterBody(b) ==
    [b EXCEPT !.firstName = "first", !.lastName = "last", !.password = "secret"]

VerifyBody(b, otp, customerId) == [b EXCEPT !.otp = otp, !.customerId = customerId]

ResendBody(b, customerId) == [b EXCEPT !.customerId = customerId]

Faults == 0..4

----------------------------------------------------------------------------
(* The steps of the three flows *)

Register(p, bodies, limit) ==
    \/ \E body \in bodies, otp \in Codes : RegisterStart(p, body, otp, limit)
    \/ \E outcome \in DispatchOutcomes : RegisterSendOtp(p, outcome)
    \/ \E fault \in Faults : RegisterTransaction(p, fault)

Verify(p, bodies, limit) ==
    \/ \E body \in bodies : VerifyStart(p, body, limit)
    \/ VerifyPhoneValidation(p)
    \/ VerifyEmailValidation(p)
    \/ VerifyFindActiveToken(p)
    \/ VerifyBlockCreate(p)
    \/ VerifyIncrementAttempts(p)
    \/ VerifyAttemptCreate(p)
    \/ \E fault \in Faults : VerifyTransaction(p, fault)

Resend(p, bodies, limit) ==
    \/ \E body \in bodies : ResendStart(p, body, limit)
    \/ ResendEmailValidation(p)
    \/ ResendPhoneValidation(p)
    \/ \E newOtp \in Codes : ResendFindToken(p, newOtp)
    \/ \E outcome \in DispatchOutcomes : ResendSendOtp(p, outcome)
    \/ ResendUpdateToken(p)
    \/ \E fault \in {0, 1} : ResendSmsEventCreate(p, fault)

----------------------------------------------------------------------------
(* Spec: the whole lifecycle of one registration, one request at a time     *)

Init ==
    /\ db = EmptyDb
    /\ req = [p \in Procs |-> Idle]
    /\ now = 0

SeqRegisterBodies == {RegisterBody(Alice)}
SeqVerifyBodies == {VerifyBody(Alice, otp, id) : otp \in Codes, id \in 1..2}
SeqResendBodies == {ResendBody(Alice, 1)}

Next ==
    \/ Register(1, SeqRegisterBodies, MaxAuditRows)
    \/ Verify(1, SeqVerifyBodies, MaxAuditRows)
    \/ Resend(1, SeqResendBodies, MaxAuditRows)
    \/ Tick(MaxTime)

Spec == Init /\ [][Next]_vars

----------------------------------------------------------------------------
(* SpecRace: two verify / resend requests at a time, from the state in      *)
(* which Alice and Bob have registered (a state Spec reaches)               *)

Registered(d, body, otp) ==
    Transaction(d, RegistrationWrites(d, [Idle EXCEPT !.body = RegisterBody(body),
                                                      !.otp = otp], 0))

InitRace ==
    /\ now = 0
    /\ req = [p \in Procs |-> Idle]
    /\ \E a \in Codes, b \in Codes :
          db = Registered(Registered(EmptyDb, Alice, a), Bob, b)

RaceVerifyBodies == {VerifyBody(Alice, otp, id) : otp \in Codes, id \in 1..2}
RaceResendBodies == {ResendBody(Alice, 1)}
RaceAuditRows == 4 + MaxRaceRows

NextRace ==
    \/ \E p \in Procs :
          \/ Verify(p, RaceVerifyBodies, RaceAuditRows)
          \/ Resend(p, RaceResendBodies, RaceAuditRows)
    \/ Tick(RaceMaxTime)

SpecRace == InitRace /\ [][NextRace]_vars

----------------------------------------------------------------------------
(* updateCustomerInfo and deactivateCustomerAccount (customer-flow.js)      *)
(* behind PATCH /api/customers/update/:id and POST /api/customers/inactive  *)

(* fastify.authenticate: the bearer of an access token.  One is issued to   *)
(* the customer of every committed activation, which also created that      *)
(* customer's account; it lives EXPIRES_IN, longer than the clock runs.     *)
Authenticated == {a.customerId : a \in BagToSet(db.accounts)}

(* customerRepo.phoneExists: another customer has the phone *)
phoneExists(d, phone, excludeCustomerId) ==
    \E i \in 1..Len(d.customers) :
        d.customers[i].phone = phone /\ i # excludeCustomerId

(* customerRepo.update: data is the request body, spread into the row *)
customerUpdate(d, customerId, data) ==
    IF customerId \notin 1..Len(d.customers)
    THEN Failed(d, "Record to update not found")
    ELSE IF "email" \in DOMAIN data
            /\ \E i \in 1..Len(d.customers) :
                  i # customerId /\ d.customers[i].email = data.email
    THEN Failed(d, "Unique constraint failed")
    ELSE Ok([d EXCEPT !.customers[customerId] =
                [f \in DOMAIN @ |-> IF f \in DOMAIN data THEN data[f] ELSE @[f]]])

(* customerRepo.deactivate *)
customerDeactivate(d, customerId) ==
    [d EXCEPT !.customers[customerId].isActive = FALSE]

(* the handler of PATCH /update/:id: `id` is the path parameter, `data` a   *)
(* body UpdateCustomerBody lets through (it declares firstName, lastName,   *)
(* username and phone and does not forbid other properties)                 *)
UpdateCustomerInfo(p, user, id, data) ==
    /\ Free(p) /\ user \in Authenticated
    /\ UNCHANGED now
    /\ LET r == [Begin("update", [NoBody EXCEPT !.customerId = id]) EXCEPT !.user = user]
           outcome == customerUpdate(db, id, data)
       IN IF "phone" \in DOMAIN data /\ phoneExists(db, data.phone, id)
          THEN /\ Set(p, Finished(r, Reply(400, "Validation error",
                                           "Phone number is already registered")))
               /\ db' = db
          ELSE IF ~outcome.ok
          THEN /\ Set(p, Finished(r, Reply(500, "Failed to update customer", outcome.error)))
               /\ db' = db
          ELSE /\ Set(p, Finished(r, [Reply(200, "", "") EXCEPT !.customerId = id]))
               /\ db' = outcome.db

(* the handler of POST /inactive: the customer is the token's *)
DeactivateCustomerAccount(p, user) ==
    /\ Free(p) /\ user \in Authenticated
    /\ UNCHANGED now
    /\ LET r == [Begin("deactivate", NoBody) EXCEPT !.user = user]
       IN IF user \notin 1..Len(db.customers)
          THEN /\ Set(p, Finished(r, Reply(404, "Customer not found", "Customer not found")))
               /\ db' = db
          ELSE IF ~db.customers[user].isActive
          THEN /\ Set(p, Finished(r, Reply(409, "Account already inactive",
                                           "Account is already inactive")))
               /\ db' = db
          ELSE /\ Set(p, Finished(r, [Reply(200, "", "") EXCEPT !.customerId = user]))
               /\ db' = customerDeactivate(db, user)

----------------------------------------------------------------------------
(* SpecProfile: one request at a time, the customer routes included, from   *)
(* the state in which Alice has registered and Bob has registered and       *)
(* verified (a state Spec's flows reach)                                    *)

ProfileMaxTime == 2     \* the clock stops here
ProfileRows == 3        \* audit rows added after the initial state

Verified(d, body, otp, id) ==
    Transaction(d, ActivationWrites(d, [Idle EXCEPT !.body = VerifyBody(body, otp, id),
                                                    !.tokenRecord.id = id], 0))

InitProfile ==
    /\ now = 0
    /\ req = [p \in Procs |-> Idle]
    /\ \E a \in Codes, b \in Codes :
          db = Verified(Registered(Registered(EmptyDb, Alice, a), Bob, b), Bob, b, 2)

UpdateBodies == {[phone |-> "p2"], [isActive |-> TRUE], [email |-> "e3"]}

ProfileAuditRows == 5 + ProfileRows

NextProfile ==
    \/ Register(1, {RegisterBody(Alice)}, ProfileAuditRows)
    \/ Verify(1, {VerifyBody(Alice, otp, 1) : otp \in Codes}, ProfileAuditRows)
    \/ Resend(1, {ResendBody(Alice, 1)}, ProfileAuditRows)
    \/ \E user \in 1..2, id \in 1..2, data \in UpdateBodies :
          UpdateCustomerInfo(1, user, id, data)
    \/ \E user \in 1..2 : DeactivateCustomerAccount(1, user)
    \/ Tick(ProfileMaxTime)

SpecProfile == InitProfile /\ [][NextProfile]_vars

----------------------------------------------------------------------------
(* SpecGuards: one request at a time, on a valid, an inactive and an        *)
(* unknown device, from states in which an operator may have blocked        *)
(* Alice's phone or email (rows inserted into blocks, as the e2e tests do)  *)
(* before or after she registered                                           *)

GuardMaxTime == 3       \* the clock stops here
GuardAuditRows == 6     \* rows of registration_attempts and sms_events together

OnDevice(b, deviceId) == [b EXCEPT !.deviceId = deviceId]

DeviceIds == {"d1", "d2", "d3"}    \* d3 is no row of devices

OperatorBlocks ==
    {[scope |-> "phone", value |-> Alice.phone, reason |-> "Test phone block",
      source |-> "test"],
     [scope |-> "email", value |-> Alice.email, reason |-> "Test email block",
      source |-> "test"]}

InitGuards ==
    /\ now = 0
    /\ req = [p \in Procs |-> Idle]
    /\ \E base \in {EmptyDb} \cup {Registered(EmptyDb, Alice, a) : a \in Codes} :
          \/ db = base
          \/ \E block \in OperatorBlocks : db = blockCreate(base, block)

GuardRegisterBodies == {RegisterBody(OnDevice(Alice, d)) : d \in DeviceIds}
GuardVerifyBodies == {VerifyBody(OnDevice(Alice, d), otp, 1) : d \in DeviceIds, otp \in Codes}
GuardResendBodies == {ResendBody(OnDevice(Alice, d), 1) : d \in DeviceIds}

NextGuards ==
    \/ Register(1, GuardRegisterBodies, GuardAuditRows)
    \/ Verify(1, GuardVerifyBodies, GuardAuditRows)
    \/ Resend(1, GuardResendBodies, GuardAuditRows)
    \/ Tick(GuardMaxTime)

SpecGuards == InitGuards /\ [][NextGuards]_vars

----------------------------------------------------------------------------
(* Claims *)

Succeeded(p, op) ==
    req[p].op = op /\ req[p].pc = "done" /\ req[p].reply.statusCode = 201

SuccessRows(phone) ==
    {r \in BagToSet(db.attempts) :
        r.phone = phone /\ r.action = "verify_otp" /\ r.result = "success"}

CountRows(bag, rows) ==
    LET RECURSIVE Sum(_)
        Sum(S) == IF S = {} THEN 0
                  ELSE LET r == CHOOSE x \in S : TRUE
                       IN CopiesIn(r, bag) + Sum(S \ {r})
    IN Sum(rows)

AccountsOf(d, customerId) ==
    CountRows(d.accounts, {a \in BagToSet(d.accounts) : a.customerId = customerId})

Answers(p, op, pc) ==
    req[p].op = op /\ req[p].pc = pc /\ req'[p].pc = "done"

AllSent == {"sms", "email"}

(* C1: of two verify requests that matched the same token, at most one     *)
(* returns success, and the token's phone has at most one success attempt   *)
(* row.                                                                     *)
C1_AtMostOneVerifySucceeds ==
    /\ \A p \in Procs, q \in Procs :
          (p # q /\ Succeeded(p, "verify") /\ Succeeded(q, "verify"))
              => req[p].tokenRecord.id # req[q].tokenRecord.id
    /\ \A i \in 1..Len(db.tokens) :
          CountRows(db.attempts, SuccessRows(db.tokens[i].phone)) <= 1

(* C2: the step in which a verify request returns success leaves the token  *)
(* it matched verified with verifiedAt = now, the customer it names active  *)
(* with exactly one Account (EVERYDAY, BASIC), and adds exactly one         *)
(* (verify_otp, success) attempt row.                                       *)
C2_SuccessfulVerify ==
    [][\A p \in Procs :
         (Answers(p, "verify", "transaction") /\ req'[p].reply.statusCode = 201) =>
            LET id == req[p].tokenRecord.id
                b == req[p].body
            IN /\ db'.tokens[id].status = "verified"
               /\ db'.tokens[id].verifiedAt = now
               /\ db'.customers[b.customerId].isActive
               /\ AccountsOf(db', b.customerId) = 1
               /\ \A a \in BagToSet(db'.accounts) :
                     a.customerId = b.customerId =>
                        a.accountType = "EVERYDAY" /\ a.plan = "BASIC"
               /\ db'.attempts = db.attempts (+) SetToBag({[phone |-> b.phone,
                        email |-> b.email, deviceId |-> b.deviceId,
                        action |-> "verify_otp", result |-> "success", reason |-> ""]})
               /\ req'[p].reply.customerId = b.customerId
      ]_vars

C2_Witness ==
    \E p \in Procs :
        /\ Succeeded(p, "verify")
        /\ db.tokens[req[p].tokenRecord.id].status = "verified"
        /\ db.customers[req[p].body.customerId].isActive

(* C3: a verify request whose activation transaction fails at any of its    *)
(* four writes changes no table (the token stays pending with verifiedAt    *)
(* null, the customer inactive, no Account, no success row) and answers     *)
(* with an error and no access token.                                       *)
C3_FailedActivationRollsBack ==
    [][\A p \in Procs :
         (Answers(p, "verify", "transaction") /\ req'[p].reply.statusCode # 201) =>
            LET id == req[p].tokenRecord.id
            IN /\ db' = db
               /\ db'.tokens[id].status = "pending"
               /\ db'.tokens[id].verifiedAt = NULL
               /\ req'[p].reply.statusCode = 400
               /\ req'[p].reply.accessToken = <<>>
      ]_vars

C3_Witness ==
    \E p \in Procs :
        /\ req[p].op = "verify" /\ req[p].pc = "done"
        /\ req[p].reply.message = "storage failure"
        /\ db.tokens[req[p].tokenRecord.id].status = "pending"
        /\ \A i \in 1..Len(db.customers) : ~db.customers[i].isActive
        /\ db.accounts = EmptyBag

(* C4: a token whose attempts exceeds maxAttempts has an active device      *)
(* Block for its device.                                                    *)
C4_AttemptsBounded ==
    \A i \in 1..Len(db.tokens) :
        db.tokens[i].attempts > db.tokens[i].maxAttempts =>
            \E b \in BagToSet(db.blocks) :
                /\ b.scope = "device" /\ b.value = db.tokens[i].devicesId
                /\ b.active /\ (b.expiresAt = NULL \/ b.expiresAt > now)

TokensFor(b) ==
    {i \in 1..Len(db.tokens) :
        /\ Matches(b.phone, db.tokens[i].phone)
        /\ Matches(b.email, db.tokens[i].email)
        /\ db.tokens[i].devicesId = b.deviceId}

C8_NoMixedState ==
    [][\A p \in Procs :
         LET id == req[p].tokenRecord.id
         IN /\ (Answers(p, "verify", "transaction") /\ req'[p].reply.statusCode = 201)
               => db.tokens[id].tokenHash = hash(req[p].body.otp)
            /\ (req[p].op = "verify" /\ req[p].pc = "incrementAttempts"
                /\ req'[p] # req[p])
               => db.tokens[id].tokenHash = req[p].tokenRecord.tokenHash
      ]_vars

(* C9: a registration whose SMS or email was not sent answers 400 "Failed   *)
(* to send verification code" and none of its steps changes a table.        *)
C9_RegisterDispatchFailure ==
    [][\A p \in Procs :
         (/\ req[p].op = "register"
          /\ req[p].pc \in {"sendOtp", "transaction"}
          /\ req'[p] # req[p]
          /\ req'[p].sent # AllSent)
         => /\ db' = db
            /\ req'[p].pc = "done"
            /\ req'[p].reply.statusCode = 400
            /\ req'[p].reply.message = "Failed to send verification code"
            /\ req'[p].reply.customerId = NoId
      ]_vars

C9_Witness ==
    \E p \in Procs :
        /\ req[p].op = "register" /\ req[p].pc = "done"
        /\ req[p].reply.message = "Failed to send verification code"
        /\ req[p].sent = {"sms"}
        /\ db = EmptyDb

(* C10: a resend past cooldown whose SMS or email was not sent answers 500  *)
(* SENDING_FAILED and none of its steps changes a table: the token keeps    *)
(* its token, tokenHash, expiresAt and attempts, and no SmsEvent is added.  *)
C10_ResendDispatchFailure ==
    [][\A p \in Procs :
         (/\ req[p].op = "resend"
          /\ req[p].pc \in {"sendOtp", "updateToken", "smsEventCreate"}
          /\ req'[p] # req[p]
          /\ req'[p].sent # AllSent)
         => /\ db' = db
            /\ req'[p].pc = "done"
            /\ req'[p].reply.statusCode = 500
            /\ req'[p].reply.error = "SENDING_FAILED"
            /\ ~req'[p].reply.isNew
      ]_vars

C10_Witness ==
    \E p \in Procs :
        /\ req[p].op = "resend" /\ req[p].pc = "done"
        /\ req[p].reply.error = "SENDING_FAILED"
        /\ req[p].sent = {"sms"}
        /\ db.tokens[req[p].tokenRecord.id].attempts > 0

DeviceBlock(deviceId) ==
    [scope |-> "device", value |-> deviceId, reason |-> "OTP max attempts exceeded",
     source |-> "registration", active |-> TRUE, expiresAt |-> NULL]

(* C11: the wrong-code verify that finds its token at attempts =            *)
(* maxAttempts - 1 answers "Too many verification attempts" and leaves an   *)
(* active device Block; and a verify or register request arriving while the *)
(* device has an active Block is rejected as device-blocked.                *)
C11_MaxthFailureBlocks ==
    [][\A p \in Procs :
         /\ (/\ req[p].op = "verify" /\ req'[p].pc = "done" /\ req[p].pc # "done"
             /\ req[p].tokenRecord.id # NoId
             /\ req[p].tokenRecord.attempts = req[p].tokenRecord.maxAttempts - 1
             /\ req[p].tokenRecord.tokenHash # hash(req[p].body.otp))
            => /\ req'[p].reply.message = "Too many verification attempts"
               /\ CopiesIn(DeviceBlock(req[p].body.deviceId), db'.blocks) > 0
         /\ (/\ req[p].pc \in {"idle", "done"}
             /\ req'[p].pc \notin {"idle", "done"} \/ req'[p] # req[p]
             /\ req'[p].op \in {"verify", "register"}
             /\ CopiesIn(DeviceBlock(req'[p].body.deviceId), db.blocks) > 0)
            => /\ req'[p].pc = "done"
               /\ req'[p].reply.message = "Your device has been blocked"
      ]_vars

(* C12: a verify whose lookup finds the token at attempts >= maxAttempts    *)
(* goes to the Block creation whatever its code; that step adds one active  *)
(* device Block, answers "Too many verification attempts" and changes no    *)
(* token, customer, account or attempt row.                                 *)
C12_LimitBeforeHash ==
    [][\A p \in Procs :
         LET b == req[p].body
             id == findActiveToken(db, b.phone, b.email, b.deviceId)
         IN /\ (/\ req[p].op = "verify" /\ req[p].pc = "findActiveToken"
                /\ req'[p] # req[p]
                /\ id # NoId
                /\ db.tokens[id].attempts >= db.tokens[id].maxAttempts)
               => /\ req'[p].pc = "blockCreate"
                  /\ db' = db
            /\ (/\ req[p].op = "verify" /\ req[p].pc = "blockCreate"
                /\ req'[p] # req[p])
               => /\ req'[p].pc = "done"
                  /\ req'[p].reply.statusCode = 400
                  /\ req'[p].reply.message = "Too many verification attempts"
                  /\ req'[p].reply.accessToken = <<>>
                  /\ db'.blocks = db.blocks (+) SetToBag({DeviceBlock(b.deviceId)})
                  /\ db'.tokens = db.tokens
                  /\ db'.customers = db.customers
                  /\ db'.accounts = db.accounts
                  /\ db'.attempts = db.attempts
      ]_vars

C12_Witness ==
    \E p \in Procs :
        /\ req[p].op = "verify" /\ req[p].pc = "done"
        /\ req[p].reply.message = "Too many verification attempts"
        /\ LET t == db.tokens[req[p].tokenRecord.id]
           IN /\ t.token = req[p].body.otp
              /\ t.status = "pending"
              /\ t.attempts = t.maxAttempts
        /\ db.accounts = EmptyBag
        /\ \A i \in 1..Len(db.customers) : ~db.customers[i].isActive

FailedAttemptRow(b) ==
    [phone |-> b.phone, email |-> b.email, deviceId |-> b.deviceId,
     action |-> "verify_otp", result |-> "failed", reason |-> "Invalid OTP"]

C18_RegistrationAtomic ==
    [][\A p \in Procs :
         LET b == req[p].body
             n == Len(db.tokens) + 1
             c == Len(db.customers) + 1
         IN (/\ req[p].op = "register" /\ req[p].pc = "transaction"
             /\ req'[p] # req[p])
            => /\ req'[p].pc = "done"
               /\ IF req'[p].reply.statusCode = 201
                  THEN /\ db'.attempts = db.attempts (+) SetToBag({
                              [phone |-> b.phone, email |-> b.email,
                               deviceId |-> b.deviceId, action |-> "send_token",
                               result |-> "initiated", reason |-> ""]})
                       /\ Len(db'.tokens) = n
                       /\ \A i \in 1..Len(db.tokens) : db'.tokens[i] = db.tokens[i]
                       /\ db'.tokens[n].status = "pending"
                       /\ db'.tokens[n].attempts = 0
                       /\ db'.tokens[n].verifiedAt = NULL
                       /\ db'.tokens[n].expiresAt = now + 5
                       /\ db'.tokens[n].tokenHash = hash(req[p].otp)
                       /\ db'.tokens[n].phone = b.phone
                       /\ db'.tokens[n].email = b.email
                       /\ db'.tokens[n].devicesId = b.deviceId
                       /\ db'.tokens[n].deviceFingerprint
                              = Devices[b.deviceId].deviceFingerprint
                       /\ BagCardinality(db'.smsEvents) = BagCardinality(db.smsEvents) + 1
                       /\ CopiesIn([phone |-> b.phone, direction |-> "outbound",
                                    status |-> "sent", message |-> "OTP sent",
                                    devicesId |-> b.deviceId], db'.smsEvents)
                            = CopiesIn([phone |-> b.phone, direction |-> "outbound",
                                        status |-> "sent", message |-> "OTP sent",
                                        devicesId |-> b.deviceId], db.smsEvents) + 1
                       /\ Len(db'.customers) = c
                       /\ \A i \in 1..Len(db.customers) : db'.customers[i] = db.customers[i]
                       /\ db'.customers[c] = [phone |-> b.phone, email |-> b.email,
                                              isActive |-> FALSE, deviceId |-> b.deviceId]
                       /\ req'[p].reply.customerId = c
                       /\ db'.accounts = db.accounts
                       /\ db'.blocks = db.blocks
                  ELSE /\ db' = db
                       /\ req'[p].reply.statusCode = 400
                       /\ req'[p].reply.customerId = NoId
      ]_vars

C18_Witness ==
    \E p \in Procs :
        /\ Succeeded(p, "register")
        /\ Len(db.tokens) = 1 /\ Len(db.customers) = 1
        /\ db.tokens[1].deviceFingerprint = "fp1"
        /\ BagCardinality(db.attempts) = 1 /\ BagCardinality(db.smsEvents) = 1

ActiveBlockOn(scope, value) ==
    \E b \in BagToSet(db.blocks) :
        /\ b.scope = scope /\ b.value = value /\ b.active
        /\ (b.expiresAt = NULL \/ b.expiresAt > now)

Starts(p) == req[p].pc \in {"idle", "done"} /\ req'[p] # req[p]

(* C14: a register, verify or resend request whose device is no row of      *)
(* devices, is inactive or has an active device Block is answered with an   *)
(* error in its first step, before any lookup or dispatch: nothing was      *)
(* sent and no table has changed.  Every later step of a request (lookups,  *)
(* dispatch, writes) belongs to a request whose device is an active row.    *)
C14_DeviceValidationFirst ==
    [][\A p \in Procs :
         /\ (/\ Starts(p)
             /\ LET d == req'[p].body.deviceId
                IN \/ d \notin DOMAIN Devices
                   \/ ~Devices[d].isActive
                   \/ ActiveBlockOn("device", d))
            => /\ req'[p].pc = "done"
               /\ req'[p].reply.statusCode \in {400, 500}
               /\ req'[p].reply.accessToken = <<>>
               /\ req'[p].reply.customerId = NoId
               /\ ~req'[p].reply.isNew
               /\ req'[p].sent = {}
               /\ req'[p].tokenRecord.id = NoId
               /\ db' = db
         /\ (~Starts(p) /\ req'[p] # req[p])
            => /\ req[p].body.deviceId \in DOMAIN Devices
               /\ Devices[req[p].body.deviceId].isActive
      ]_vars

C14_Witness ==
    \E p \in Procs :
        /\ req[p].op = "register" /\ req[p].pc = "done"
        /\ req[p].reply.message = "Your device has been blocked"
        /\ CopiesIn(DeviceBlock(req[p].body.deviceId), db.blocks) = 1
        /\ Len(db.tokens) = 1

C14_WitnessUnknownDevice ==
    \E p \in Procs :
        /\ req[p].op = "resend" /\ req[p].pc = "done"
        /\ req[p].body.deviceId = "d3"
        /\ req[p].reply.statusCode = 500

(* C19: a registration request whose phone or email has an active Block is  *)
(* rejected in its first step with a blocked error, sends nothing and       *)
(* changes no table.                                                        *)
C19_RegisterChecksPhoneAndEmail ==
    [][\A p \in Procs :
         (/\ Starts(p)
          /\ req'[p].op = "register"
          /\ \/ ActiveBlockOn("phone", req'[p].body.phone)
             \/ ActiveBlockOn("email", req'[p].body.email))
         => /\ req'[p].pc = "done"
            /\ req'[p].reply.statusCode = 400
            /\ req'[p].sent = {}
            /\ db' = db
      ]_vars

(* C20: a verify request standing at its phone (email) check while the      *)
(* body's phone (email) has an active Block is answered there with a 400    *)
(* blocked error and changes no table; so the token lookup is reached only  *)
(* by requests whose phone and email are not blocked.                       *)
C20_VerifyChecksPhoneAndEmail ==
    [][\A p \in Procs :
         /\ (/\ req[p].op = "verify" /\ req[p].pc = "phoneValidation"
             /\ req'[p] # req[p]
             /\ ActiveBlockOn("phone", req[p].body.phone))
            => /\ req'[p].pc = "done"
               /\ req'[p].reply.statusCode = 400
               /\ req'[p].reply.message = "Phone number has been blocked"
               /\ req'[p].reply.accessToken = <<>>
               /\ db' = db
         /\ (/\ req[p].op = "verify" /\ req[p].pc = "emailValidation"
             /\ req'[p] # req[p]
             /\ ActiveBlockOn("email", req[p].body.email))
            => /\ req'[p].pc = "done"
               /\ req'[p].reply.statusCode = 400
               /\ req'[p].reply.message = "Email address has been blocked"
               /\ req'[p].reply.accessToken = <<>>
               /\ db' = db
         /\ (req[p].op = "verify" /\ req[p].pc = "start")
            => req'[p].pc \in {"start", "done", "phoneValidation"}
         /\ (req[p].op = "verify" /\ req[p].pc = "phoneValidation")
            => req'[p].pc \in {"phoneValidation", "done", "emailValidation"}
         /\ (req[p].op = "verify" /\ req'[p].pc = "findActiveToken"
             /\ req[p].pc # "findActiveToken")
            => /\ req[p].pc = "emailValidation"
               /\ ~ActiveBlockOn("email", req[p].body.email)
      ]_vars

C20_Witness ==
    \E p \in Procs :
        /\ req[p].op = "verify" /\ req[p].pc = "done"
        /\ req[p].reply.message = "Phone number has been blocked"
        /\ \E i \in 1..Len(db.tokens) :
              /\ db.tokens[i].token = req[p].body.otp
              /\ db.tokens[i].phone = req[p].body.phone
              /\ db.tokens[i].devicesId = req[p].body.deviceId
              /\ db.tokens[i].status = "pending"
              /\ db.tokens[i].attempts = 0
              /\ db.tokens[i].expiresAt > now
        /\ \A i \in 1..Len(db.customers) : ~db.customers[i].isActive

C20_WitnessEmail ==
    \E p \in Procs :
        /\ req[p].op = "verify" /\ req[p].pc = "done"
        /\ req[p].reply.message = "Email address has been blocked"
        /\ \E i \in 1..Len(db.tokens) :
              db.tokens[i].token = req[p].body.otp /\ db.tokens[i].status = "pending"

(* C15: a Customer row is created with isActive = FALSE; isActive goes from *)
(* FALSE to TRUE only in the committing activation transaction of a verify  *)
(* request naming that customer, and never for a customer that was          *)
(* activated before (one that already has its account).                     *)
C15_ActivatedOnceByVerify ==
    [][/\ Len(db'.customers) >= Len(db.customers)
       /\ \A i \in 1..Len(db'.customers) :
            IF i > Len(db.customers)
            THEN ~db'.customers[i].isActive
            ELSE (~db.customers[i].isActive /\ db'.customers[i].isActive)
                 => /\ \E p \in Procs :
                          /\ Answers(p, "verify", "transaction")
                          /\ req'[p].reply.statusCode = 201
                          /\ req[p].body.customerId = i
                    /\ AccountsOf(db, i) = 0
      ]_vars

(* C16: every active Customer has exactly one Account, an EVERYDAY/BASIC    *)
(* one, and every Account belongs to a Customer row.                        *)
C16_ActiveHasOneAccount ==
    /\ \A i \in 1..Len(db.customers) :
          db.customers[i].isActive
          => /\ AccountsOf(db, i) = 1
             /\ CopiesIn([customerId |-> i, accountType |-> "EVERYDAY",
                          plan |-> "BASIC"], db.accounts) = 1
    /\ \A a \in BagToSet(db.accounts) : a.customerId \in 1..Len(db.customers)

(* C17: no two pending tokens have the same phone, email and device.        *)
C17_OnePendingTokenPerTuple ==
    \A i, j \in 1..Len(db.tokens) :
        (/\ i # j
         /\ db.tokens[i].status = "pending" /\ db.tokens[j].status = "pending"
         /\ db.tokens[i].phone = db.tokens[j].phone
         /\ db.tokens[i].email = db.tokens[j].email)
        => db.tokens[i].devicesId # db.tokens[j].devicesId

ActiveTokensFor(b) ==
    {i \in TokensFor(b) :
        /\ db.tokens[i].status = "pending"
        /\ db.tokens[i].verifiedAt = NULL
        /\ db.tokens[i].expiresAt > now}

(* C21: a verify request whose lookup finds no token that is pending,       *)
(* unverified, unexpired (expiresAt > now) and matches its device and the   *)
(* phone/email it sent is answered there with "Verification token not found *)
(* or expired" and no access token, and no step it took up to and including *)
(* the lookup changed a table; so the right code of an expired token does   *)
(* not activate the customer.                                               *)
C21_NoActiveTokenFails ==
    [][\A p \in Procs :
         /\ (/\ req[p].op = "verify" /\ req[p].pc = "findActiveToken"
             /\ req'[p] # req[p]
             /\ ActiveTokensFor(req[p].body) = {})
            => /\ req'[p].pc = "done"
               /\ req'[p].reply.statusCode = 400
               /\ req'[p].reply.message = "Verification token not found or expired"
               /\ req'[p].reply.accessToken = <<>>
               /\ req'[p].reply.customerId = NoId
               /\ db' = db
         /\ (/\ req[p].op = "verify"
             /\ req[p].pc \in {"phoneValidation", "emailValidation", "findActiveToken"}
             /\ req'[p] # req[p])
            => db' = db
         /\ (Starts(p) /\ req'[p].op = "verify") => db' = db
      ]_vars

C21_Witness ==
    \E p \in Procs :
        /\ req[p].op = "verify" /\ req[p].pc = "done"
        /\ req[p].reply.message = "Verification token not found or expired"
        /\ \E i \in TokensFor(req[p].body) :
              /\ db.tokens[i].token = req[p].body.otp
              /\ db.tokens[i].status = "pending"
              /\ db.tokens[i].attempts < db.tokens[i].maxAttempts
              /\ db.tokens[i].expiresAt <= now
        /\ \A i \in 1..Len(db.customers) : ~db.customers[i].isActive
        /\ db.accounts = EmptyBag

(* C22: a resend request whose lookup finds no pending token for its phone, *)
(* email and device is answered there with 404 TOKEN_NOT_FOUND, has sent    *)
(* nothing, and no step it took changed a table.                            *)
C22_ResendWithoutToken ==
    [][\A p \in Procs :
         /\ (/\ req[p].op = "resend" /\ req[p].pc = "findByCustomerAndDetails"
             /\ req'[p] # req[p]
             /\ \A i \in TokensFor(req[p].body) : db.tokens[i].status # "pending")
            => /\ req'[p].pc = "done"
               /\ req'[p].reply.statusCode = 404
               /\ req'[p].reply.error = "TOKEN_NOT_FOUND"
               /\ ~req'[p].reply.isNew
               /\ req'[p].sent = {}
               /\ db' = db
         /\ (/\ req[p].op = "resend"
             /\ req[p].pc \in {"emailValidation", "phoneValidation",
                                "findByCustomerAndDetails"}
             /\ req'[p] # req[p])
            => db' = db /\ req'[p].sent = {}
         /\ (Starts(p) /\ req'[p].op = "resend") => db' = db /\ req'[p].sent = {}
      ]_vars

C22_Witness ==
    \E p \in Procs :
        /\ req[p].op = "resend" /\ req[p].pc = "done"
        /\ req[p].reply.statusCode = 404
        /\ TokensFor(req[p].body) # {}
        /\ \A i \in TokensFor(req[p].body) : db.tokens[i].status = "verified"
        /\ now >= COOLDOWN_PERIOD

C22_WitnessNoRegistration ==
    \E p \in Procs :
        /\ req[p].op = "resend" /\ req[p].pc = "done"
        /\ req[p].reply.statusCode = 404
        /\ db = EmptyDb

(* a token a resend has rotated: its expiry no longer is the registration's *)
Rotated(d, i) == d.tokens[i].expiresAt # d.tokens[i].createdAt + REGISTER_EXPIRY

(* C23: the rotation step of a resend leaves the token with the hash of the *)
(* new code and not of the code it held before (when they differ), below    *)
(* its attempts limit; a verify whose lookup finds a rotated token below    *)
(* the limit with a code other than the new one adds a failed attempt and   *)
(* answers "Invalid verification code"; and a verify succeeds on a rotated  *)
(* token only with the code the rotation stored.                            *)
C23_OldCodeNoLongerVerifies ==
    [][\A p \in Procs :
         LET b == req[p].body
             id == req[p].tokenRecord.id
             found == Max(ActiveTokensFor(b) \cup {NoId})
         IN /\ (/\ req[p].op = "resend" /\ req[p].pc = "updateToken"
                /\ req'[p] # req[p])
               => /\ db'.tokens[id].tokenHash = hash(req[p].otp)
                  /\ db'.tokens[id].attempts < db'.tokens[id].maxAttempts
                  /\ db'.tokens[id].status = "pending"
                  /\ db.tokens[id].token # req[p].otp
                        => db'.tokens[id].tokenHash # hash(db.tokens[id].token)
            /\ (/\ req[p].op = "verify" /\ req[p].pc = "findActiveToken"
                /\ req'[p] # req[p]
                /\ found # NoId
                /\ Rotated(db, found)
                /\ db.tokens[found].attempts < db.tokens[found].maxAttempts
                /\ b.otp # db.tokens[found].token)
               => req'[p].pc = "incrementAttempts" /\ req'[p].tokenRecord.id = found
            /\ (/\ req[p].op = "verify"
                /\ req[p].pc \in {"incrementAttempts", "attemptCreate"}
                /\ req'[p].pc = "done")
               => /\ req'[p].reply.statusCode = 400
                  /\ req'[p].reply.message = "Invalid verification code"
                  /\ req'[p].reply.accessToken = <<>>
                  /\ db'.tokens[id].status = "pending"
            /\ (/\ req[p].op = "verify" /\ req[p].pc = "incrementAttempts")
               => req'[p].pc \in {"incrementAttempts", "attemptCreate"}
            /\ (/\ Answers(p, "verify", "transaction")
                /\ req'[p].reply.statusCode = 201
                /\ Rotated(db, id))
               => b.otp = db.tokens[id].token
      ]_vars

C23_Witness ==
    \E p \in Procs :
        /\ req[p].op = "verify" /\ req[p].pc = "done"
        /\ req[p].reply.message = "Invalid verification code"
        /\ LET id == req[p].tokenRecord.id
           IN /\ Rotated(db, id)
              /\ db.tokens[id].token # req[p].body.otp
              /\ db.tokens[id].attempts = 1
              /\ db.tokens[id].status = "pending"

C23_WitnessNewCode ==
    \E p \in Procs :
        /\ Succeeded(p, "verify")
        /\ LET id == req[p].tokenRecord.id
           IN /\ Rotated(db, id)
              /\ db.tokens[id].token = req[p].body.otp
              /\ db.tokens[id].status = "verified"
              /\ db.tokens[id].attempts = 1

----------------------------------------------------------------------------
(* SpecExpiry: one request at a time from the state in which Alice has      *)
(* registered and her token is as the registration left it or has been      *)
(* expired by hand (registration_tokens.updateMany of the e2e test "Should  *)
(* fail when token is expired")                                             *)

ExpiryMaxTime == 3      \* the clock stops here
ExpiryRows == 3         \* audit rows added after the initial state

ExpiredByHand(d, i) == [d EXCEPT !.tokens[i].expiresAt = now]

InitExpiry ==
    /\ now = 0
    /\ req = [p \in Procs |-> Idle]
    /\ \E a \in Codes :
          \/ db = Registered(EmptyDb, Alice, a)
          \/ db = ExpiredByHand(Registered(EmptyDb, Alice, a), 1)

ExpiryAuditRows == 2 + ExpiryRows

NextExpiry ==
    \/ Verify(1, {VerifyBody(Alice, otp, 1) : otp \in Codes}, ExpiryAuditRows)
    \/ Resend(1, {ResendBody(Alice, 1)}, ExpiryAuditRows)
    \/ Tick(ExpiryMaxTime)

SpecExpiry == InitExpiry /\ [][NextExpiry]_vars

PendingTokensFor(b) == {i \in TokensFor(b) : db.tokens[i].status = "pending"}

C24_WitnessExpiredRotates ==
    \E p \in Procs :
        /\ req[p].op = "resend" /\ req[p].pc = "updateToken"
        /\ db.tokens[req[p].tokenRecord.id].expiresAt <= req[p].at

(* a token rotated at the end of its cooldown, verified with the new code *)
C24_WitnessVerifiableAgain ==
    \E p \in Procs :
        /\ Succeeded(p, "verify")
        /\ LET t == db.tokens[req[p].tokenRecord.id]
           IN /\ t.status = "verified"
              /\ t.expiresAt = t.verifiedAt + OTP_EXPIRY_TIME
              /\ t.verifiedAt = COOLDOWN_PERIOD
        /\ BagCardinality(db.smsEvents) = 2

BlockedMessages ==
    [device |-> "Your device has been blocked",
     phone |-> "Phone number has been blocked",
     email |-> "Email address has been blocked"]

Carried(b, scope) ==
    IF scope = "device" THEN b.deviceId ELSE IF scope = "phone" THEN b.phone ELSE b.email

(* the step at which a request of this kind makes the lookup for the scope  *)
ChecksAt(op, scope) ==
    IF scope = "device" \/ op = "register" THEN {"idle", "done"}
    ELSE IF scope = "phone" THEN {"phoneValidation"}
    ELSE {"emailValidation"}

(* C25: a register, verify or resend request is rejected as blocked only    *)
(* when a Block with its scope and value has active = TRUE and expiresAt    *)
(* null or later than now, and whenever there is such a Block for the       *)
(* device, phone or email it carries it is rejected at the lookup for that  *)
(* scope and changes no table.                                              *)
C25_BlockActiveIff ==
    [][\A p \in Procs : \A scope \in {"device", "phone", "email"} :
         /\ (/\ req'[p] # req[p] /\ req'[p].pc = "done"
             /\ req'[p].op \in {"register", "verify"}
             /\ req'[p].reply.message = BlockedMessages[scope])
            => ActiveBlockOn(scope, Carried(req'[p].body, scope))
         /\ (/\ req'[p] # req[p]
             /\ req'[p].op \in {"register", "verify", "resend"}
             /\ req[p].pc \in ChecksAt(req'[p].op, scope)
             /\ Carried(req'[p].body, scope) # Undefined
             /\ ActiveBlockOn(scope, Carried(req'[p].body, scope)))
            => /\ req'[p].pc = "done"
               /\ req'[p].reply.statusCode \in {400, 500}
               /\ db' = db
      ]_vars

(* C26: a request on a protected route (update, deactivate) whose access    *)
(* token names a customer with isActive = FALSE is not answered 200 and     *)
(* changes no table.                                                        *)
C26_InactiveNotHonoured ==
    [][\A p \in Procs :
         (/\ Starts(p)
          /\ req'[p].op \in {"update", "deactivate"}
          /\ ~db.customers[req'[p].user].isActive)
         => /\ req'[p].reply.statusCode # 200
            /\ db' = db
      ]_vars

(* C28: the update operation changes no customer row other than the one of  *)
(* the customer the caller's access token names.                            *)
C28_UpdatesOwnRecordOnly ==
    [][\A p \in Procs :
         (Starts(p) /\ req'[p].op = "update")
         => \A i \in 1..Len(db.customers) :
               i # req'[p].user => db'.customers[i] = db.customers[i]
      ]_vars

----------------------------------------------------------------------------
(* SpecPair: two registrations side by side, Alice's on device d1 and Bob's *)
(* on device d4, each client sending its requests one after the other, the  *)
(* steps of the two interleaved in every order.  It starts COOLDOWN_PERIOD  *)
(* after Bob, or Alice and then Bob, registered (states Spec's flows reach  *)
(* for two clients, here with the same code sent to both), so that a resend *)
(* may rotate; the clock stands still.  Resends are Alice's: hers is the    *)
(* older token, the one a lookup that took the latest row would miss.       *)

PairRows == 2           \* audit rows added after the initial state

BobOnD4 == OnDevice(Bob, "d4")

Client(p) == IF p = 1 THEN Alice ELSE BobOnD4

(* the tables as they are after the clock has advanced by `minutes` *)
Aged(d, minutes) ==
    [d EXCEPT !.tokens = [i \in DOMAIN @ |->
                            [@[i] EXCEPT !.createdAt = @ - minutes,
                                         !.expiresAt = @ - minutes]]]

InitPair ==
    /\ now = COOLDOWN_PERIOD
    /\ req = [p \in Procs |-> Idle]
    /\ \E c \in Codes :
          \/ db = Aged(Registered(EmptyDb, BobOnD4, c), COOLDOWN_PERIOD)
          \/ db = Aged(Registered(Registered(EmptyDb, Alice, c), BobOnD4, c),
                       COOLDOWN_PERIOD)

(* the customerId the registration answered to this client *)
CustomerIdsOf(b) == {i \in 1..Len(db.customers) : db.customers[i].email = b.email}

PairVerifyBodies(b) == {VerifyBody(b, otp, id) : otp \in Codes, id \in CustomerIdsOf(b)}
PairResendBodies(b) == {ResendBody(b, id) : id \in CustomerIdsOf(b)}

PairAuditRows == 4 + PairRows

NextPair ==
    \E p \in Procs :
        \/ Register(p, {RegisterBody(Client(p))}, PairAuditRows)
        \/ Verify(p, PairVerifyBodies(Client(p)), PairAuditRows)
        \/ (p = 1 /\ Resend(p, PairResendBodies(Client(p)), PairAuditRows))

SpecPair == InitPair /\ [][NextPair]_vars

(* the rows of a table that belong to the registration of b *)
RowsOf(d, b) ==
    [tokens |-> {<<i, d.tokens[i]>> : i \in {j \in 1..Len(d.tokens) :
                    \/ d.tokens[j].phone = b.phone \/ d.tokens[j].email = b.email
                    \/ d.tokens[j].devicesId = b.deviceId}},
     customers |-> {<<i, d.customers[i]>> : i \in {j \in 1..Len(d.customers) :
                    \/ d.customers[j].phone = b.phone \/ d.customers[j].email = b.email
                    \/ d.customers[j].deviceId = b.deviceId}},
     accounts |-> {<<a, CopiesIn(a, d.accounts)>> : a \in {x \in BagToSet(d.accounts) :
                    \/ x.customerId > Len(d.customers)
                    \/ d.customers[x.customerId].email = b.email}},
     blocks |-> {<<k, CopiesIn(k, d.blocks)>> : k \in {x \in BagToSet(d.blocks) :
                    x.value \in {b.phone, b.email, b.deviceId}}},
     attempts |-> {<<r, CopiesIn(r, d.attempts)>> : r \in {x \in BagToSet(d.attempts) :
                    \/ x.phone = b.phone \/ x.email = b.email
                    \/ x.deviceId = b.deviceId}}]

(* C27: a step of a register, verify or resend request of one client leaves *)
(* every token (its attempts counter included), customer, account, block    *)
(* and attempt row of the other client's registration as it was, in every   *)
(* interleaving of the two clients' requests.                               *)
C27_NoInterference ==
    [][\A p \in Procs, q \in Procs :
         (p # q /\ req'[p] # req[p])
         => /\ RowsOf(db', Client(q)) = RowsOf(db, Client(q))
            /\ req'[q] = req[q]
      ]_vars

(* Alice has guessed wrong and Bob has verified, while the other was busy *)
C27_Witness ==
    /\ req[1].op = "verify" /\ req[1].pc = "done"
    /\ req[1].reply.message = "Invalid verification code"
    /\ req[2].op = "verify" /\ req[2].pc = "transaction"
    /\ Len(db.tokens) = 2
    /\ \E i, j \in 1..Len(db.tokens) :
          /\ db.tokens[i].phone = Alice.phone /\ db.tokens[i].attempts = 1
          /\ db.tokens[j].phone = Bob.phone /\ db.tokens[j].attempts = 0
          /\ db.tokens[j].tokenHash = hash(req[2].body.otp)

C27_WitnessBothActive ==
    /\ Succeeded(1, "verify") /\ Succeeded(2, "verify")
    /\ \A i \in 1..Len(db.customers) : db.customers[i].isActive /\ AccountsOf(db, i) = 1
    /\ Len(db.customers) = 2

----------------------------------------------------------------------------
(* SpecInputs: one request at a time, with bodies that lack a field beside  *)
(* the complete ones, COOLDOWN_PERIOD after Alice registered or before she   *)
(* did; the clock stands still                                              *)

InputRows == 3          \* audit rows added after the initial state

Lacking(b, f) ==
    [b EXCEPT ![f] = IF f = "otp" THEN NoOtp
                     ELSE IF f = "customerId" THEN NoId
                     ELSE Undefined]

LackingBoth(b) == [b EXCEPT !.phone = Undefined, !.email = Undefined]

RegisterRequired == {"phone", "email", "deviceId", "firstName", "lastName", "password"}
ResendRequired == {"customerId", "phone", "email", "deviceId"}
VerifyRequired == {"otp", "deviceId", "customerId"}

InputRegisterBodies ==
    {RegisterBody(Alice)} \cup {Lacking(RegisterBody(Alice), f) : f \in RegisterRequired}

InputVerifyBodies ==
    LET full == {VerifyBody(Alice, otp, 1) : otp \in Codes}
    IN full \cup {Lacking(b, f) : b \in full, f \in VerifyRequired \cup {"phone", "email"}}
            \cup {LackingBoth(b) : b \in full}

InputResendBodies ==
    {ResendBody(Alice, 1)} \cup {Lacking(ResendBody(Alice, 1), f) : f \in ResendRequired}

InitInputs ==
    /\ now = COOLDOWN_PERIOD
    /\ req = [p \in Procs |-> Idle]
    /\ \/ db = EmptyDb
       \/ \E c \in Codes : db = Aged(Registered(EmptyDb, Alice, c), COOLDOWN_PERIOD)

InputAuditRows == 2 + InputRows

NextInputs ==
    \/ Register(1, InputRegisterBodies, InputAuditRows)
    \/ Verify(1, InputVerifyBodies, InputAuditRows)
    \/ Resend(1, InputResendBodies, InputAuditRows)

SpecInputs == InitInputs /\ [][NextInputs]_vars

(* what the claim calls missing required input for each kind of request *)
LacksRequired(op, b) ==
    IF op = "register" THEN \E f \in RegisterRequired : b[f] = Undefined
    ELSE IF op = "resend"
    THEN b.customerId = NoId \/ \E f \in ResendRequired \ {"customerId"} : b[f] = Undefined
    ELSE \/ b.otp = NoOtp \/ b.deviceId = Undefined \/ b.customerId = NoId
         \/ (b.phone = Undefined /\ b.email = Undefined)

C29_WitnessCustomerId ==
    \E p \in Procs :
        /\ req[p].op = "verify" /\ req[p].pc = "done"
        /\ req[p].body.customerId = NoId /\ req[p].body.otp # NoOtp
        /\ req[p].reply.statusCode = 400
        /\ Len(db.tokens) = 1 /\ db.tokens[1].attempts = 0
        /\ db.tokens[1].token # req[p].body.otp

C29_WitnessRegister ==
    \E p \in Procs :
        /\ req[p].op = "register" /\ req[p].pc = "done"
        /\ req[p].body.password = Undefined
        /\ req[p].reply.statusCode = 400
        /\ db = EmptyDb

C29_WitnessResend ==
    \E p \in Procs :
        /\ req[p].op = "resend" /\ req[p].pc = "done"
        /\ req[p].body.customerId = NoId
        /\ req[p].reply.statusCode = 400
        /\ Len(db.tokens) = 1 /\ db.tokens[1].status = "pending"
        /\ now - db.tokens[1].createdAt >= COOLDOWN_PERIOD

(* C30: a reply carries an access token only when it is the 201 of a verify *)
(* request answered by its activation transaction, which committed: the     *)
(* token it matched is verified, the customer the reply names is active and *)
(* got its account in that step, and the access token is the one signed for *)
(* that customer's id and email, with expiresIn 3600.  A register or resend *)
(* reply, and every verify reply other than that 201, carries none.         *)
C30_TokenOnlyAfterActivation ==
    [][\A p \in Procs :
         /\ (req'[p] # req[p] /\ req'[p].reply.accessToken # <<>>)
            => /\ Answers(p, "verify", "transaction")
               /\ req'[p].reply.statusCode = 201
               /\ LET c == req'[p].reply.customerId
                  IN /\ c = req[p].body.customerId
                     /\ c \in 1..Len(db'.customers)
                     /\ db'.customers[c].isActive
                     /\ AccountsOf(db', c) = AccountsOf(db, c) + 1
                     /\ db'.tokens[req[p].tokenRecord.id].status = "verified"
                     /\ req'[p].reply.accessToken = <<c, db'.customers[c].email>>
                     /\ req'[p].reply.expiresIn = EXPIRES_IN
         /\ (/\ req'[p] # req[p] /\ req'[p].pc = "done"
             /\ \/ req'[p].op \in {"register", "resend"}
                \/ req'[p].reply.statusCode # 201
                \/ db' = db)
            => req'[p].reply.accessToken = <<>> /\ req'[p].reply.expiresIn = 0
         /\ (Answers(p, "verify", "transaction") /\ req'[p].reply.statusCode = 201)
            => req'[p].reply.accessToken # <<>>
      ]_vars

C30_Witness ==
    \E p \in Procs :
        /\ Succeeded(p, "verify")
        /\ req[p].reply.accessToken = <<1, Alice.email>>
        /\ req[p].reply.expiresIn = EXPIRES_IN
        /\ db.customers[1].isActive /\ AccountsOf(db, 1) = 1

C30_WitnessNoTokenYet ==
    \E p \in Procs :
        /\ Succeeded(p, "resend")
        /\ req[p].reply.accessToken = <<>>
        /\ \A i \in 1..Len(db.customers) : ~db.customers[i].isActive

(* C31: a verify request is answered with success, and a customer is made   *)
(* active by its transaction, only when the customer its customerId names   *)
(* has the phone and email of the token it matched; otherwise no customer   *)
(* becomes active and the reply carries no access token.                    *)
C31_ActivatesTokenOwnerOnly ==
    [][\A p \in Procs :
         (/\ req[p].op = "verify" /\ req[p].pc = "transaction"
          /\ req'[p] # req[p])
         => LET t == db.tokens[req[p].tokenRecord.id]
                c == req[p].body.customerId
                owner == /\ c \in 1..Len(db.customers)
                         /\ db.customers[c].phone = t.phone
                         /\ db.customers[c].email = t.email
            IN ~owner => /\ req'[p].reply.accessToken = <<>>
                         /\ req'[p].reply.statusCode # 201
                         /\ db'.customers = db.customers
      ]_vars

(* when the resend that last rotated the token made its decision *)
LastRotation(d, i) == d.tokens[i].expiresAt - OTP_EXPIRY_TIME

(* C32: a resend whose lookup finds a token that was rotated less than      *)
(* COOLDOWN_PERIOD ago is answered 429 and changes nothing, so that two     *)
(* rotations of one token are COOLDOWN_PERIOD or more apart.                *)
C32_RotationsThrottled ==
    [][\A p \in Procs :
         LET b == req[p].body
             id == req[p].tokenRecord.id
         IN /\ (/\ req[p].op = "resend" /\ req[p].pc = "findByCustomerAndDetails"
                /\ req'[p] # req[p]
                /\ PendingTokensFor(b) # {})
               => LET found == Max(PendingTokensFor(b))
                  IN (Rotated(db, found) /\ now - LastRotation(db, found) < COOLDOWN_PERIOD)
                     => /\ req'[p].pc = "done"
                        /\ req'[p].reply.statusCode = 429
                        /\ db' = db
            /\ (/\ req[p].op = "resend" /\ req[p].pc = "updateToken"
                /\ req'[p] # req[p]
                /\ Rotated(db, id))
               => req[p].at - LastRotation(db, id) >= COOLDOWN_PERIOD
      ]_vars

InvalidOtpAnswers(t) ==
    CountRows(db.attempts,
              {r \in BagToSet(db.attempts) :
                  /\ r.phone = t.phone /\ r.email = t.email /\ r.deviceId = t.devicesId
                  /\ r.action = "verify_otp" /\ r.result = "failed"})

(* C33: for the registration of every token, the wrong-code verify requests *)
(* answered "Invalid verification code" (each one recorded as a failed      *)
(* verify_otp attempt) number at most maxAttempts, whatever resends were    *)
(* made between them.                                                       *)
C33_GuessesBounded ==
    \A i \in 1..Len(db.tokens) :
        InvalidOtpAnswers(db.tokens[i]) <= db.tokens[i].maxAttempts

----------------------------------------------------------------------------
(* SpecGuardsFair: SpecGuards with the scheduling of the event loop: a      *)
(* request that has started is run to its answer, and the clock advances    *)

(* the steps of a request after its first: the continuations of its awaits  *)
Continue(p) ==
    \/ \E outcome \in DispatchOutcomes : RegisterSendOtp(p, outcome)
    \/ \E fault \in Faults : RegisterTransaction(p, fault)
    \/ VerifyPhoneValidation(p)
    \/ VerifyEmailValidation(p)
    \/ VerifyFindActiveToken(p)
    \/ VerifyBlockCreate(p)
    \/ VerifyIncrementAttempts(p)
    \/ VerifyAttemptCreate(p)
    \/ \E fault \in Faults : VerifyTransaction(p, fault)
    \/ ResendEmailValidation(p)
    \/ ResendPhoneValidation(p)
    \/ \E newOtp \in Codes : ResendFindToken(p, newOtp)
    \/ \E outcome \in DispatchOutcomes : ResendSendOtp(p, outcome)
    \/ ResendUpdateToken(p)
    \/ \E fault \in {0, 1} : ResendSmsEventCreate(p, fault)

SpecGuardsFair ==
    /\ InitGuards /\ [][NextGuards]_vars
    /\ WF_vars(Continue(1))
    /\ WF_vars(Tick(GuardMaxTime))

MaxTokens == 2          \* token rows the property looks at

(* C34: a token whose attempts has reached maxAttempts is never verified    *)
(* afterwards (no Block is ever lifted by these requests).                  *)
C34_MaxedTokenNeverVerified ==
    \A i \in 1..MaxTokens :
        []((i <= Len(db.tokens) /\ db.tokens[i].attempts >= db.tokens[i].maxAttempts)
            => [](i <= Len(db.tokens) => db.tokens[i].status # "verified"))

Frozen(t) ==
    [tokenHash |-> t.tokenHash, expiresAt |-> t.expiresAt, attempts |-> t.attempts,
     status |-> t.status, verifiedAt |-> t.verifiedAt]

(* C35: verified is terminal: no step of any request, concurrent ones       *)
(* included, changes tokenHash, expiresAt, attempts, status or verifiedAt   *)
(* of a token whose status is verified.                                     *)
C35_VerifiedIsTerminal ==
    [][\A i \in 1..Len(db.tokens) :
         db.tokens[i].status = "verified"
         => Frozen(db'.tokens[i]) = Frozen(db.tokens[i])]_vars

(* C36: every RegistrationToken satisfies tokenHash = hash(token), and only *)
(* the rotation of a resend changes the code or the hash of an existing     *)
(* token.                                                                   *)
C36_HashMatchesCode ==
    /\ [](\A i \in 1..Len(db.tokens) : db.tokens[i].tokenHash = hash(db.tokens[i].token))
    /\ [][\A i \in 1..Len(db.tokens) :
            (\/ db'.tokens[i].token # db.tokens[i].token
             \/ db'.tokens[i].tokenHash # db.tokens[i].tokenHash)
            => \E p \in Procs : /\ req[p].op = "resend" /\ req[p].pc = "updateToken"
                                /\ req'[p] # req[p]
                                /\ req[p].tokenRecord.id = i]_vars

(* a rotation has just replaced the code by a different one *)
C36_Witness ==
    \E p \in Procs :
        /\ req[p].op = "resend" /\ req[p].pc = "smsEventCreate"
        /\ LET t == db.tokens[req[p].tokenRecord.id]
           IN /\ t.token = req[p].otp
              /\ t.tokenHash # req[p].tokenRecord.tokenHash
              /\ t.tokenHash = hash(req[p].otp)

(* a token as registration created it *)
C36_WitnessCreated ==
    \E i \in 1..Len(db.tokens) :
        /\ ~Rotated(db, i)
        /\ db.tokens[i].tokenHash = hash(db.tokens[i].token)

----------------------------------------------------------------------------
(* SpecVerifyRace: concurrent verify requests on one token, freshly created *)
(* or freshly rotated                                                       *)

VerifyRaceRows == 3

(* the state a resend with code `newOtp` leaves behind at time `now` *)
RotatedOnce(d, id, newOtp) ==
    smsEventCreate(updateToken(d, id, [token |-> newOtp, tokenHash |-> hash(newOtp),
                                       expiresAt |-> now + OTP_EXPIRY_TIME,
                                       attempts |-> 0]),
                   [phone |-> d.tokens[id].phone, direction |-> "outbound",
                    status |-> "sent", message |-> "OTP resent",
                    devicesId |-> d.tokens[id].devicesId])

InitVerifyRace ==
    /\ now = COOLDOWN_PERIOD
    /\ req = [p \in Procs |-> Idle]
    /\ \E a \in Codes, c \in Codes :
          LET created == Aged(Registered(EmptyDb, Alice, a), COOLDOWN_PERIOD)
          IN \/ db = created
             \/ db = RotatedOnce(created, 1, c)

VerifyRaceAuditRows == 3 + VerifyRaceRows

NextVerifyRace ==
    \E p \in Procs :
        Verify(p, {VerifyBody(Alice, otp, 1) : otp \in Codes}, VerifyRaceAuditRows)

SpecVerifyRace == InitVerifyRace /\ [][NextVerifyRace]_vars

(* requests that have incremented the counter of token i and not answered *)
AnswerPending(i) ==
    Cardinality({p \in Procs : /\ req[p].op = "verify" /\ req[p].pc = "attemptCreate"
                               /\ req[p].tokenRecord.id = i})

(* C37: whatever the interleaving of verify requests on a token, attempts   *)
(* equals the number of "Invalid verification code" answers returned for it *)
(* since its creation or last rotation, plus the requests that have         *)
(* incremented and are about to answer: no increment is lost.               *)
C37_NoIncrementLost ==
    \A i \in 1..Len(db.tokens) :
        db.tokens[i].attempts = InvalidOtpAnswers(db.tokens[i]) + AnswerPending(i)

(* two requests read the same counter value, both incremented, both answered *)
C37_Witness ==
    /\ \A p \in Procs : /\ req[p].op = "verify" /\ req[p].pc = "done"
                         /\ req[p].reply.message = "Invalid verification code"
    /\ Rotated(db, 1)
    /\ db.tokens[1].attempts = 2
    /\ InvalidOtpAnswers(db.tokens[1]) = 2

(* C38: a resend that answers with an error leaves the token it looked up   *)
(* as it read it: the same code, hash and attempts, and its answering step  *)
(* changes no token row (expiresAt included).                               *)
C38_ResendAllOrNothing ==
    [][\A p \in Procs :
         (/\ req[p].op = "resend" /\ req[p].pc # "done" /\ req'[p].pc = "done"
          /\ req'[p].reply.statusCode # 201
          /\ req[p].tokenRecord.id # NoId)
         => LET t == db'.tokens[req[p].tokenRecord.id]
            IN /\ t.tokenHash = req[p].tokenRecord.tokenHash
               /\ hash(t.token) = req[p].tokenRecord.tokenHash
               /\ t.attempts = req[p].tokenRecord.attempts
               /\ db'.tokens = db.tokens]_vars

(* C39: a resend request stopped by device validation (unknown, inactive or *)
(* blocked device) or by the phone or email blocklist check is answered     *)
(* with a 4xx gatekeeping error, never with the generic 500.                *)
C39_ResendGatekeepingTyped ==
    [][\A p \in Procs :
         (/\ req'[p] # req[p] /\ req'[p].op = "resend"
          /\ \/ /\ Starts(p)
                /\ req'[p].body.customerId # NoId /\ req'[p].body.phone # Undefined
                /\ req'[p].body.email # Undefined /\ req'[p].body.deviceId # Undefined
                /\ deviceValidation(db, req'[p].body.deviceId) # ""
             \/ /\ req[p].pc = "emailValidation"
                /\ ActiveBlockOn("email", req[p].body.email)
             \/ /\ req[p].pc = "phoneValidation"
                /\ ActiveBlockOn("phone", req[p].body.phone))
         => /\ req'[p].pc = "done"
            /\ req'[p].reply.statusCode \in 400..499
            /\ req'[p].reply # ResendGenericError]_vars

====
